---- MODULE Spec2Model ----
(***************************************************************************)
(* Model of the message pipeline of the DNEXT support chatbot:             *)
(*   app/session.py          ConversationSession                           *)
(*   app/session_manager.py  SessionManager                                *)
(*   app/message_handler.py  MessageHandler (process_stream and helpers)   *)
(*   app/rag_engine.py       RAGEngine (initialize, load_documents,        *)
(*                           format_context)                               *)
(*   src/chunker.py          Chunker                                       *)
(*   src/vector_store.py     VectorStore.get_collection                    *)
(*   src/llm_handler.py      LLMHandler.generate_response_stream           *)
(*   database.py / models.py the conversations table and its row model     *)
(*   auth_service.py         AuthenticationService.verify_user_access      *)
(*                                                                         *)
(* Text is a sequence of string pieces; a fixed literal of the source is   *)
(* one piece, user text is one piece per character.  Whitespace pieces are *)
(* " " and NL.  The emoji that prefixes the error literals is left out.    *)
(***************************************************************************)
EXTENDS Integers, Sequences, FiniteSets, TLC

\* ---------------------------------------------------------------- bounds
MaxTurns == 1       \* turns of one behaviour of the session lifecycle
MaxFiles == 2       \* attachments of one turn
MaxChunks == 2      \* fragments of one generation stream
MaxObjs == 2        \* ConversationSession objects ever constructed
MaxPassages == 1    \* passages one retrieval returns
MaxMsgs == 3        \* add_message calls on one session object
MaxLines == 3       \* lines of one document handed to the Chunker
MaxDocs == 2        \* documents in DOCS_FOLDER
MaxLoads == 2       \* load_documents calls on one RAGEngine
MaxResults == 3     \* passages of one retrieval result handed to format_context
MaxInFlight == 2    \* process_stream generators alive at once
TicksPerDay == 4    \* clock ticks that share one calendar date

\* ------------------------------------------------------ program constants
TITLE_LEN == 50

NL == "\n"
\* SEPARATOR_PATTERN: the fewest asterisks of a separator
MIN_STARS == 4
Whitespace == {" ", NL}

Users == {1, 2}
\* session_id = None (session_manager.py:24)
NoSid == 0

\* "New Chat", character by character as user text is
NEW_CHAT == <<"N", "e", "w", " ", "C", "h", "a", "t">>

SUPPORTED_IMAGE_EXTS == {".jpg", ".jpeg", ".png", ".gif", ".webp", ".bmp"}

NO_CONTEXT_REPLY ==
  <<"I couldn't find relevant information about this. For specific assistance, please contact our support team at support@dnext.io">>

DENIED_MSG == <<"Your account has been suspended. Please contact support.">>
EMPTY_INPUT_MSG == <<"Please provide a question or upload an image.">>
NOT_CONFIGURED_MSG == <<"Image analysis is not configured. Please ensure GROQ_API_KEY is set.">>
PDF_IMPORT_MSG == <<"PDF support requires PyMuPDF: pip install PyMuPDF">>

\* text of an exception, str(e)
ExcText == "<exception>"
TypeErrorText == "Conversation.__init__() got an unexpected keyword argument 'session_id'"

TxtReadError(e) == <<"Error reading text file: ", e>>
PdfError(e) == <<"Error processing PDF: ", e>>
UnsupportedMsg(ext) ==
  <<"Unsupported file type: ", ext, ". Supported: images (jpg, png, gif, webp) and PDF.">>
AnalyzeError(name, e) == <<"Error analyzing ", name, ": ", e>>
TopLevelError(e) == <<"Error: ", e>>
GenErrorFragment(e) == <<"Error generating response: ", e>>

\* ------------------------------------------------------------ text helpers
Digit(n) == <<"0", "1", "2", "3", "4", "5", "6", "7", "8", "9">>[n + 1]

RECURSIVE LStrip(_)
LStrip(s) ==
  IF s = <<>> THEN <<>>
  ELSE IF Head(s) \in Whitespace THEN LStrip(Tail(s)) ELSE s

RECURSIVE RStrip(_)
RStrip(s) ==
  IF s = <<>> THEN <<>>
  ELSE IF s[Len(s)] \in Whitespace THEN RStrip(SubSeq(s, 1, Len(s) - 1)) ELSE s

\* str.strip()
Strip(s) == RStrip(LStrip(s))

IsPrefix(s, t) == Len(s) <= Len(t) /\ SubSeq(t, 1, Len(s)) = s

\* sep.join(parts)
RECURSIVE Join(_, _)
Join(parts, sep) ==
  IF parts = <<>> THEN <<>>
  ELSE IF Len(parts) = 1 THEN parts[1]
  ELSE parts[1] \o sep \o Join(Tail(parts), sep)

\* content[:50] + "..." if len(content) > 50 else content
TitleOf(content) ==
  IF Len(content) > TITLE_LEN THEN SubSeq(content, 1, TITLE_LEN) \o <<"...">> ELSE content

\* --------------------------------------------------- ConversationSession
\* ConversationSession.__init__ ; now is datetime.now()
NewSession(sid, now) ==
  [session_id |-> sid, messages |-> <<>>, title |-> NEW_CHAT, last_updated |-> now]

\* ConversationSession.add_message
add_message(sess, role, content, now) ==
  [sess EXCEPT
     !.messages = Append(@, [role |-> role, content |-> content]),
     !.last_updated = now,
     !.title = IF role = "user" /\ @ = NEW_CHAT /\ Strip(content) # <<>>
               THEN TitleOf(content) ELSE @]

\* ------------------------------------------------------------- models.py
\* the fields of the Conversation dataclass: its generated __init__ takes
\* these keywords and no other
ConversationFields ==
  {"user_id", "message", "response", "timestamp", "conversation_id",
   "conversation_type", "response_time_ms", "attachments"}

\* Conversation(**kwargs) raises TypeError for a keyword that is not a field
ConversationAccepts(kwargs) == kwargs \subseteq ConversationFields

\* keywords MessageHandler passes at message_handler.py:126 and :226
HandlerTextKwargs ==
  {"user_id", "session_id", "message", "response", "timestamp",
   "conversation_type", "response_time_ms"}
HandlerFileKwargs == HandlerTextKwargs \cup {"attachments"}
\* keywords DatabaseRepository.get_conversations_by_session passes
RowKwargs ==
  {"conversation_id", "user_id", "session_id", "message", "response",
   "timestamp", "conversation_type", "response_time_ms", "attachments"}

\* ------------------------------------------------------------ database.py
\* DatabaseRepository.save_conversation: one INSERT; a failing INSERT is
\* logged and swallowed (insertOk = FALSE)
save_conversation(rows, conv, insertOk) ==
  IF insertOk
  THEN Append(rows, [conv EXCEPT !.conversation_id = Len(rows) + 1])
  ELSE rows

RECURSIVE SelectRows(_, _, _)
SelectRows(rows, u, sid) ==
  IF rows = <<>> THEN <<>>
  ELSE LET rest == SelectRows(Tail(rows), u, sid) IN
       IF Head(rows).user_id = u /\ Head(rows).session_id = sid
       THEN <<Head(rows)>> \o rest ELSE rest

\* DatabaseRepository.get_conversations_by_session: rows of (u, sid) by
\* ascending timestamp (rows are inserted with increasing timestamps); each
\* row is rebuilt with Conversation(...), and any exception gives []
get_conversations_by_session(rows, u, sid) ==
  LET sel == SelectRows(rows, u, sid) IN
  IF sel = <<>> THEN <<>>
  ELSE IF ConversationAccepts(RowKwargs) THEN sel ELSE <<>>

\* ---------------------------------------------------------- rag_engine.py
\* the indexed passages, nearest first
Ranking == <<[doc |-> "p1", document |-> "d1", section |-> "s1"],
             [doc |-> "p2", document |-> "d1", section |-> "s2"],
             [doc |-> "p3", document |-> "d2", section |-> "s1"]>>

\* a key the metadata of a passage does not hold
Missing == "<missing>"
\* metadata.get(key, 'Unknown')
MetadataGet(value) == IF value = Missing THEN "Unknown" ELSE value

RECURSIVE ContextParts_unnumbered(_, _)
ContextParts_unnumbered(docs, i) ==
  IF i > Len(docs) THEN <<>>
  ELSE << <<"[Source ", "", " - Document: ", MetadataGet(docs[i].document),
            ", Section: ", MetadataGet(docs[i].section), "]", NL,
            docs[i].doc>> >>
       \o ContextParts_unnumbered(docs, i + 1)
RECURSIVE ContextParts(_, _)
ContextParts(docs, i) ==
  IF i > Len(docs) THEN <<>>
  ELSE << <<"[Source ", Digit(i), " - Document: ", MetadataGet(docs[i].document),
            ", Section: ", MetadataGet(docs[i].section), "]", NL,
            docs[i].doc>> >>
       \o ContextParts(docs, i + 1)

\* RAGEngine.format_context
format_context(docs) ==
  IF docs = <<>> THEN <<>>
  ELSE Join(ContextParts(docs, 1), <<NL, NL, "---", NL, NL>>)

\* --------------------------------------------------------- auth_service.py
UserStatuses == {"active", "inactive", "blocked", "none"}

VARIABLES
  vlmConfigured,  \* MessageHandler.vlm is not None (GROQ_API_KEY was set)
  objs,           \* the ConversationSession objects constructed so far
  sessions,       \* SessionManager._sessions: user -> (session_id -> object)
  nextSid,        \* the next value uuid4() hands out
  db,             \* rows of the conversations table, in insertion order
  uploads,        \* files copied into uploads/, in copy order
  clock,          \* datetime.now()
  turn,           \* the process_stream generator of the turn being handled
  nTurns,         \* process_stream calls so far
  appended,       \* history: the user/assistant pairs turns appended
  evicted,        \* history: messages of each session when clear_user ran
  restored,       \* history: the objects restore_from_db constructed
  rag,            \* RAGEngine: the document folder, the index, the collection
  chunker,        \* a document handed to the Chunker, and what it returned
  other           \* a second process_stream generator, suspended while the
                  \* one in turn is being pulled

vars == <<vlmConfigured, objs, sessions, nextSid, db, uploads,
          clock, turn, nTurns, appended, evicted, restored, rag, chunker,
          other>>

\* the RAGEngine of a run whose indexing is not looked at: its index was
\* built earlier and is loaded
NoRag == [pc |-> "loaded"]
\* no document is at the Chunker
NoChunker == [pc |-> "none"]

EmptyMap == [s \in {} |-> 0]

\* mutation: an access check that only turns blocked accounts away
verify_user_access_blockedOnly(status) == status # "blocked"

\* AuthenticationService.verify_user_access; status is the status column of
\* the row get_user_by_id finds for the user, "none" when it finds no row
verify_user_access(status) ==
  IF status = "none" THEN FALSE ELSE status = "active"

\* ------------------------------------------------------ message_handler.py
\* An attachment is its extension (files[i]); what the environment does when
\* the handler touches it is the outcome out[i]:
\*   .txt    "ok": open/read gives TxtContent;  "empty": the file is empty
\*           and read gives "";  "raise": open raises
\*   image   "ok": extraction succeeds;  "fail": extract_image_info returns
\*           success = False
\*   .pdf    "ok", "fail" as image, after page 1 was rasterised;
\*           "raise": fitz fails on the file;
\*           "importerror": PyMuPDF is not installed
Exts == {".txt", ".png", ".pdf", ".exe"}
Untouched == "-"

OutcomesFor(ext) ==
  IF ext = ".txt" THEN {"ok", "empty", "raise"}
  ELSE IF ext = ".pdf" THEN {"ok", "fail", "raise", "importerror"}
  ELSE IF ext \in SUPPORTED_IMAGE_EXTS THEN {"ok", "fail"}
  ELSE {Untouched}

\* PyMuPDF is installed or it is not: the import fails for every .pdf or none
OutcomeVectors(files) ==
  {out \in [1..Len(files) ->
               {"ok", "empty", "fail", "raise", "importerror", Untouched}] :
     /\ \A i \in 1..Len(files) : out[i] \in OutcomesFor(files[i])
     /\ (\E i \in 1..Len(files) : out[i] = "importerror")
          => \A j \in 1..Len(files) : files[j] = ".pdf" => out[j] = "importerror"}

FileLists == UNION {[1..n -> Exts] : n \in 0..MaxFiles}

Messages == {<<>>, <<" ">>, <<"h", "i">>}
\* fh.read() of the i-th attachment
TxtContent(i) == <<"t", Digit(i)>>
\* fh.read() by what the file holds
FileText(i, outcome) == IF outcome = "empty" THEN <<>> ELSE TxtContent(i)
ExtractedInfo == "<extracted info>"

\* the k-th fragment the generation stream delivers
Fragment(k) == <<<<"a">>, <<"b">>, <<"c">>, <<"d">>>>[k]

\* Path(file_path).name
FileName(ext) == "upload" \o ext

\* what the index returns for a query: the n nearest passages, n <= top_k
RetrievalResults == {SubSeq(Ranking, 1, n) : n \in 0..MaxPassages}

\* mutation: the file content glued to the text without the blank line
AppendText_noBlankLine(message, has_text, text_content) ==
  IF has_text THEN Strip(message \o text_content) ELSE text_content

\* process_stream L69
AppendText(message, has_text, text_content) ==
  IF has_text THEN Strip(message \o <<NL, NL>> \o text_content) ELSE text_content

\* mutation: whitespace-only text counted as text
HasText_unstripped(message) == message # <<>>

\* bool(message and message.strip())
HasText(message) == message # <<>> /\ Strip(message) # <<>>

\* process_stream L62-78: .txt attachments are read into the message, the
\* others are kept (as their positions in files); a failing read ends the turn
RECURSIVE AbsorbTxt(_, _, _, _)
AbsorbTxt(files, out, i, acc) ==
  IF i > Len(files) THEN acc
  ELSE IF files[i] = ".txt"
       THEN IF out[i] = "raise"
            THEN [acc EXCEPT !.err = TRUE, !.touched = @ \cup {i}]
            ELSE AbsorbTxt(files, out, i + 1,
                   [acc EXCEPT
                      !.message = AppendText(@, acc.has_text,
                                             FileText(i, out[i])),
                      !.has_text = TRUE,
                      !.touched = @ \cup {i}])
       ELSE AbsorbTxt(files, out, i + 1, [acc EXCEPT !.files = Append(@, i)])

Absorb(message, files, out) ==
  LET acc0 == [err |-> FALSE, message |-> message, has_text |-> HasText(message),
               files |-> <<>>, touched |-> {}]
  IN IF files # <<>> THEN AbsorbTxt(files, out, 1, acc0) ELSE acc0

\* VLMHandler.extract_image_info: never raises, reports failure in the result
extract_image_info(outcome) ==
  IF outcome = "ok"
  THEN [success |-> TRUE, error |-> "", extracted_info |-> ExtractedInfo]
  ELSE [success |-> FALSE, error |-> ExcText, extracted_info |-> ""]

\* mutation: a loop that never looks at the extraction result
ExtractionFailed_ignored(result) == FALSE

\* _handle_files L188: if not result["success"]
ExtractionFailed(result) == ~result.success

\* mutation: a loop that sends every non-PDF attachment to extraction
IsImageExt_any(ext) == ext # ".pdf"

\* _handle_files L178: elif file_ext in SUPPORTED_IMAGE_EXTS
IsImageExt(ext) == ext \in SUPPORTED_IMAGE_EXTS

\* _handle_files L192-194
Description(n, ext, result) ==
  <<"[File ", Digit(n), ": ", FileName(ext), "]", NL, result.extracted_info>>

\* _handle_files L155-195: the extraction loop over the kept attachments
\* rem (positions in files).  calls[j] counts the calls of
\* extract_image_info for rem[j]
RECURSIVE ExtractLoop(_, _, _, _, _)
ExtractLoop(files, out, rem, i, acc) ==
  IF i > Len(rem) THEN acc
  ELSE LET ext == files[rem[i]]
           result == extract_image_info(out[rem[i]])
           seen == [acc EXCEPT !.touched = @ \cup {rem[i]}]
           called == [seen EXCEPT !.calls[i] = @ + 1]
           after ==
             IF ExtractionFailed(result)
             THEN [called EXCEPT !.abort = TRUE, !.exc = TRUE,
                                 !.yield = AnalyzeError(FileName(ext), result.error)]
             ELSE ExtractLoop(files, out, rem, i + 1,
                    [called EXCEPT !.descs = Append(@, Description(Len(@) + 1, ext, result))])
       IN
       IF ext = ".pdf"
       THEN IF out[rem[i]] = "importerror"
            THEN [seen EXCEPT !.abort = TRUE, !.exc = TRUE, !.yield = PDF_IMPORT_MSG]
            ELSE IF out[rem[i]] = "raise"
            THEN [seen EXCEPT !.abort = TRUE, !.exc = TRUE, !.yield = PdfError(ExcText)]
            ELSE after
       ELSE IF IsImageExt(ext) THEN after
       ELSE [acc EXCEPT !.abort = TRUE, !.yield = UnsupportedMsg(ext)]

ExtractAll(files, out, rem) ==
  ExtractLoop(files, out, rem, 1,
              [abort |-> FALSE, exc |-> FALSE, yield |-> <<>>, descs |-> <<>>,
               calls |-> [j \in 1..Len(rem) |-> 0], touched |-> {}])

\* _handle_files L200-205
RetrievalQuery(message, has_text, combined) ==
  IF ~has_text
  THEN <<"Analyze this information and help me understand it: ">> \o combined
  ELSE message \o <<NL, NL, "File content(s):", NL>> \o combined

UserDisplayMsg(message, has_text, num_files) ==
  IF ~has_text
  THEN <<"[", Digit(num_files), " FILE(S)] (No text provided)">>
  ELSE <<"[", Digit(num_files), " FILE(S) + TEXT] ">> \o message

\* LLMHandler.classify_conversation: the model's reply, upper-cased, is kept
\* when it is one of the two labels; anything else, and any exception of the
\* API call, gives ACTIONABLE
LlmReplies == {"CASUAL", "ACTIONABLE", "TECHNICAL", "<api error>"}
classify_conversation(reply) ==
  IF reply \in {"CASUAL", "ACTIONABLE"} THEN reply ELSE "ACTIONABLE"

Classifications == {classify_conversation(r) : r \in LlmReplies}

\* RAGEngine.retrieve: raises (embedding or index failure) or returns passages
RetrievalOutcomes ==
  {[raise |-> TRUE, docs |-> <<>>]} \cup
  {[raise |-> FALSE, docs |-> d] : d \in RetrievalResults}

\* what src.exists() / shutil.copy2 do for one attachment in _save_attachments
CopyOutcomes == {"ok", "missing", "copyfail"}

IdleTurn ==
  [pc |-> "idle", user |-> 1, sess |-> 0, message |-> <<>>, files |-> <<>>,
   fileOut |-> <<>>, status |-> "active", msg |-> <<>>, rem |-> <<>>,
   has_text |-> FALSE, branch |-> "none", ctype |-> "", ret |-> "-",
   docs |-> <<>>,
   query |-> <<>>, display |-> <<>>, full |-> <<>>, yields |-> <<>>,
   nchunks |-> 0, ended |-> FALSE, classifyCalls |-> 0, retrieveCalls |-> 0,
   genCalls |-> 0, genContext |-> <<>>, genCls |-> "", prompt |-> <<>>,
   extractCalls |-> <<>>,
   raised |-> FALSE, msgs0 |-> <<>>, db0 |-> 0, up0 |-> 0]

\* the generator object process_stream(message, files, session, user_id)
\* returns; no line of its body has run yet
NewTurn(u, o, message, files) ==
  [IdleTurn EXCEPT !.pc = "start", !.user = u, !.sess = o,
                   !.message = message, !.files = files,
                   !.fileOut = [i \in 1..Len(files) |-> Untouched],
                   !.msgs0 = objs[o].messages, !.db0 = Len(db),
                   !.up0 = Len(uploads)]

\* "yield msg; return", or the handler of process_stream L92-94
Abort(tr, msg, exc) ==
  [tr EXCEPT !.pc = "done", !.yields = Append(@, msg), !.raised = @ \/ exc]

\* LLMHandler._create_casual_prompt: the query between two fixed texts
create_casual_prompt(query) ==
  <<"<casual system text>", NL>> \o query \o <<NL, "<casual instructions>">>

\* LLMHandler._create_technical_prompt: the query, then the context, between
\* fixed texts
create_technical_prompt(context, query) ==
  <<"<technical system text>", NL, "**Customer Question:**", NL>> \o query
    \o <<NL, NL, "**Technical Documentation (reference only):**", NL>>
    \o context \o <<NL, "<response guidelines>">>

\* fetch_website_content: the text of the site (the empty string when the
\* request fails, which changes nothing of what stands before it)
WEBSITE_TEXT == "<website text>"

\* generate_response_stream L142-153: the prompt of the last message sent to
\* the model; conversation_type is the generator's own classification
StreamPrompt(context, query, conversation_type) ==
  IF conversation_type = "CASUAL" THEN create_casual_prompt(query)
  ELSE create_technical_prompt(
         context \o <<NL, NL, "--- WEBSITE CONTENT ---", NL, WEBSITE_TEXT>>,
         query)

\* the call self.llm.generate_response_stream(context, query, history);
\* gcls is the generator's own classification of query (llm_handler.py:142)
OpenStream(tr, context, query, gcls) ==
  [tr EXCEPT !.pc = "stream", !.genCalls = @ + 1, !.genContext = context,
             !.query = query, !.genCls = gcls,
             !.prompt = StreamPrompt(context, query, gcls)]

\* _handle_text L110-121 and _handle_files L207-218
Retrieve(tr, ret, query, gcls) ==
  IF ret.raise
  THEN Abort([tr EXCEPT !.retrieveCalls = @ + 1, !.ret = "raise",
                        !.query = query],
             TopLevelError(ExcText), TRUE)
  ELSE LET context == format_context(ret.docs)
           tr1 == [tr EXCEPT !.retrieveCalls = @ + 1, !.docs = ret.docs,
                             !.ret = IF ret.docs = <<>> THEN "miss" ELSE "hit",
                             !.query = query]
       IN IF context = <<>>
          THEN [tr1 EXCEPT !.pc = "nocontext",
                           !.yields = Append(@, NO_CONTEXT_REPLY),
                           !.full = NO_CONTEXT_REPLY]
          ELSE OpenStream(tr1, context, query, gcls)

\* _handle_text L100-121, up to the first yield
HandleText(tr, cls, ret, gcls) ==
  LET tr1 == [tr EXCEPT !.branch = "text", !.ctype = cls,
                        !.classifyCalls = @ + 1, !.display = tr.msg]
  IN IF cls = "CASUAL"
     THEN OpenStream(tr1, <<>>, tr.msg, gcls)
     ELSE Retrieve(tr1, ret, tr.msg, gcls)

\* the outcomes the environment produced for the touched attachments
Seen(tr, touched, out) ==
  [tr EXCEPT !.fileOut = [i \in 1..Len(tr.files) |->
                            IF i \in touched THEN out[i] ELSE @[i]]]

\* _handle_files L150-218, up to the first yield
HandleFiles(tr, out, ret, gcls) ==
  LET tr1 == [tr EXCEPT !.branch = "files", !.ctype = "TECHNICAL"]
      ex == ExtractAll(tr.files, out, tr.rem)
      tr2 == Seen([tr1 EXCEPT !.extractCalls = ex.calls], ex.touched, out)
      combined == Join(ex.descs, <<NL, NL>>)
  IN IF ~vlmConfigured THEN Abort(tr1, NOT_CONFIGURED_MSG, FALSE)
     ELSE IF ex.abort THEN Abort(tr2, ex.yield, ex.exc)
     ELSE Retrieve([tr2 EXCEPT !.display =
                      UserDisplayMsg(tr.msg, tr.has_text, Len(tr.rem))],
                   ret, RetrievalQuery(tr.msg, tr.has_text, combined), gcls)

\* process_stream L51-94, from the first next() to the first yield
Start(tr, out, cls, ret, gcls) ==
  IF ~verify_user_access(tr.status) THEN Abort(tr, DENIED_MSG, FALSE)
  ELSE LET ab == Absorb(tr.message, tr.files, out)
           tr1 == Seen([tr EXCEPT !.msg = ab.message, !.rem = ab.files,
                                  !.has_text = ab.has_text,
                                  !.extractCalls = [j \in 1..Len(ab.files) |-> 0]],
                       ab.touched, out)
       IN IF ab.err THEN Abort(tr1, TxtReadError(ExcText), TRUE)
          ELSE IF ~ab.has_text /\ ab.files = <<>>
          THEN Abort(tr1, EMPTY_INPUT_MSG, FALSE)
          ELSE IF ab.files = <<>> THEN HandleText(tr1, cls, ret, gcls)
          ELSE HandleFiles(tr1, out, ret, gcls)

\* _save_attachments L243-259: the loop over the attachments exts
RECURSIVE CopyLoop(_, _, _, _)
CopyLoop(exts, copies, i, acc) ==
  IF i > Len(exts) THEN acc
  ELSE IF copies[i] # "ok" THEN CopyLoop(exts, copies, i + 1, acc)
  ELSE CopyLoop(exts, copies, i + 1,
         [uploads |-> Append(acc.uploads,
                        [ext |-> exts[i], original_name |-> FileName(exts[i])]),
          meta |-> Append(acc.meta,
                     [type |-> IF IsImageExt(exts[i]) THEN "image" ELSE "file",
                      path |-> Len(acc.uploads) + 1,
                      original_name |-> FileName(exts[i])])])

save_attachments(ups, exts, copies) ==
  CopyLoop(exts, copies, 1, [uploads |-> ups, meta |-> <<>>])

\* ------------------------------------------------------------------- Init
Init ==
  /\ vlmConfigured \in BOOLEAN
  /\ objs = <<>>
  /\ sessions = [u \in Users |-> EmptyMap]
  /\ nextSid = 1
  /\ db = <<>>
  /\ uploads = <<>>
  /\ clock = 0
  /\ turn = IdleTurn
  /\ other = IdleTurn
  /\ nTurns = 0
  /\ appended = <<>>
  /\ evicted = [u \in Users |-> EmptyMap]
  /\ restored = {}
  /\ rag = NoRag
  /\ chunker = NoChunker

\* --------------------------------------------------------- SessionManager
\* SessionManager.get_or_create
GetOrCreate(u, sid) ==
  IF sid # NoSid /\ sid \in DOMAIN sessions[u]
  THEN UNCHANGED vars
  ELSE LET id == IF sid # NoSid THEN sid ELSE nextSid IN
       /\ Len(objs) < MaxObjs
       /\ objs' = Append(objs, NewSession(id, clock + 1))
       /\ sessions' = [sessions EXCEPT ![u] = (id :> (Len(objs) + 1)) @@ @]
       /\ nextSid' = IF sid # NoSid THEN nextSid ELSE nextSid + 1
       /\ clock' = clock + 1
       /\ UNCHANGED <<other, rag, chunker, vlmConfigured, db, uploads, turn, nTurns, appended,
                      evicted, restored>>

\* restore_from_db L51-53: two messages per row
RECURSIVE Replay(_)
Replay(rows) ==
  IF rows = <<>> THEN <<>>
  ELSE <<[role |-> "user", content |-> Head(rows).message],
         [role |-> "assistant", content |-> Head(rows).response]>>
       \o Replay(Tail(rows))

\* SessionManager.restore_from_db
RestoreFromDb(u, sid) ==
  IF sid \in DOMAIN sessions[u]
  THEN UNCHANGED vars
  ELSE LET rows == get_conversations_by_session(db, u, sid)
           s0 == [NewSession(sid, clock + 1) EXCEPT !.messages = Replay(rows)]
           s1 == IF rows # <<>>
                 THEN [s0 EXCEPT !.title = TitleOf(rows[1].message),
                                 !.last_updated = rows[Len(rows)].timestamp]
                 ELSE s0
       IN
       /\ Len(objs) < MaxObjs
       /\ objs' = Append(objs, s1)
       /\ sessions' = [sessions EXCEPT ![u] = (sid :> (Len(objs) + 1)) @@ @]
       /\ clock' = clock + 1
       /\ restored' = restored \cup {Len(objs) + 1}
       /\ UNCHANGED <<other, rag, chunker, vlmConfigured, nextSid, db, uploads, turn, nTurns,
                      appended, evicted>>

\* SessionManager.clear_user
ClearUser(u) ==
  /\ sessions' = [sessions EXCEPT ![u] = EmptyMap]
  /\ evicted' = [evicted EXCEPT ![u] =
                   [s \in DOMAIN sessions[u] |-> objs[sessions[u][s]].messages] @@ @]
  /\ UNCHANGED <<other, rag, chunker, vlmConfigured, objs, nextSid, db, uploads, clock, turn,
                 nTurns, appended, restored>>

\* --------------------------------------------------------- MessageHandler
\* process_stream(message, files, session, user_id) is called with a session
\* the SessionManager handed out for that user (ui_builder.py respond
\* L190-206); one turn is handled at a time
BeginTurn(u, sid, message, files) ==
  /\ turn.pc \in {"idle", "done"}
  /\ sid \in DOMAIN sessions[u]
  /\ turn' = NewTurn(u, sessions[u][sid], message, files)
  /\ nTurns' = nTurns + 1
  /\ UNCHANGED <<other, rag, chunker, vlmConfigured, objs, sessions, nextSid, db, uploads, clock,
                 appended, evicted, restored>>

\* the first next() on the generator: process_stream runs to its first yield
StartTurn ==
  /\ turn.pc = "start"
  /\ \E status \in UserStatuses, out \in OutcomeVectors(turn.files),
        cls \in Classifications, ret \in RetrievalOutcomes,
        gcls \in Classifications :
       turn' = Start([turn EXCEPT !.status = status], out, cls, ret, gcls)
  /\ UNCHANGED <<other, rag, chunker, vlmConfigured, objs, sessions, nextSid, db, uploads, clock,
                 nTurns, appended, evicted, restored>>

\* one more fragment of generate_response_stream: the handler extends
\* full_response and yields it (L105-107, L119-121, L216-218)
StreamChunk ==
  /\ turn.pc = "stream"
  /\ ~turn.ended
  /\ turn.nchunks < MaxChunks
  /\ LET frag == Fragment(turn.nchunks + 1) IN
       turn' = [turn EXCEPT !.full = @ \o frag,
                            !.yields = Append(@, turn.full \o frag),
                            !.nchunks = @ + 1]
  /\ UNCHANGED <<other, rag, chunker, vlmConfigured, objs, sessions, nextSid, db, uploads, clock,
                 nTurns, appended, evicted, restored>>

\* the API call inside generate_response_stream raises: the exception is
\* turned into one last fragment (llm_handler.py:177-179)
StreamError ==
  /\ turn.pc = "stream"
  /\ ~turn.ended
  /\ turn' = [turn EXCEPT !.full = @ \o GenErrorFragment(ExcText),
                          !.yields = Append(@, turn.full \o GenErrorFragment(ExcText)),
                          !.ended = TRUE, !.raised = TRUE]
  /\ UNCHANGED <<other, rag, chunker, vlmConfigured, objs, sessions, nextSid, db, uploads, clock,
                 nTurns, appended, evicted, restored>>

\* the stream is exhausted, or the turn resumes after yield NO_CONTEXT_REPLY:
\* _handle_text L123-134, _handle_files L220-235, and the handler of
\* process_stream L92-94 for whatever they raise
FinishTurn ==
  /\ turn.pc \in {"stream", "nocontext"}
  /\ \E mkdirOk \in BOOLEAN, insertOk \in BOOLEAN,
        copies \in [1..Len(turn.rem) -> CopyOutcomes] :
       LET o == turn.sess
           isFiles == turn.branch = "files"
           exts == [i \in 1..Len(turn.rem) |-> turn.files[turn.rem[i]]]
           s1 == add_message(objs[o], "user", turn.display, clock + 1)
           s2 == add_message(s1, "assistant", turn.full, clock + 2)
           saved == save_attachments(uploads, exts, copies)
           mkdirRaises == isFiles /\ ~mkdirOk
           swallowed == (isFiles /\ \E i \in DOMAIN copies : copies[i] = "copyfail")
           kwargs == IF isFiles THEN HandlerFileKwargs ELSE HandlerTextKwargs
           row == [conversation_id |-> 0, user_id |-> turn.user,
                   session_id |-> objs[o].session_id, message |-> turn.display,
                   response |-> turn.full, timestamp |-> clock + 3,
                   conversation_type |-> turn.ctype,
                   attachments |-> IF isFiles THEN saved.meta ELSE <<>>]
       IN
       /\ objs' = [objs EXCEPT ![o] = s2]
       /\ appended' = Append(appended,
                        [user_id |-> turn.user, session_id |-> objs[o].session_id,
                         message |-> turn.display, response |-> turn.full])
       /\ uploads' = IF isFiles /\ mkdirOk THEN saved.uploads ELSE uploads
       /\ IF mkdirRaises
          THEN /\ db' = db
               /\ turn' = Abort(turn, TopLevelError(ExcText), TRUE)
          ELSE IF ~ConversationAccepts(kwargs)
          THEN /\ db' = db
               /\ turn' = Abort([turn EXCEPT !.raised = @ \/ swallowed],
                                TopLevelError(TypeErrorText), TRUE)
          ELSE /\ db' = save_conversation(db, row, insertOk)
               /\ turn' = [turn EXCEPT !.pc = "done",
                                       !.raised = @ \/ swallowed \/ ~insertOk]
       /\ clock' = clock + 3
  /\ UNCHANGED <<other, rag, chunker, vlmConfigured, sessions, nextSid, nTurns, evicted, restored>>

\* the pipeline: one turn with every kind of input, on a freshly created
\* session
Next ==
  \/ \E u \in Users : GetOrCreate(u, NoSid)
  \/ \E u \in Users, sid \in 1..(nextSid - 1), m \in Messages, fs \in FileLists :
       nTurns = 0 /\ BeginTurn(u, sid, m, fs)
  \/ StartTurn
  \/ StreamChunk
  \/ StreamError
  \/ FinishTurn

Spec == Init /\ [][Next]_vars

\* the session lifecycle: every SessionManager call, around text-only turns
NextSessions ==
  \/ \E u \in Users, sid \in 0..(nextSid - 1) : GetOrCreate(u, sid)
  \/ \E u \in Users, sid \in 1..(nextSid - 1) : RestoreFromDb(u, sid)
  \/ \E u \in Users : ClearUser(u)
  \/ \E u \in Users, sid \in 1..(nextSid - 1), m \in Messages :
       nTurns < MaxTurns /\ BeginTurn(u, sid, m, <<>>)
  \/ StartTurn
  \/ StreamChunk
  \/ StreamError
  \/ FinishTurn

SpecSessions == Init /\ [][NextSessions]_vars

\* ----------------------------------------------------------- the sidebar
\* Timestamps are clock ticks; as text they are a date, a separator and a
\* time of day, and Python compares such texts character by character:
\* first the date, then the separator, then the time.
Day(t) == t \div TicksPerDay
TimeOfDay(t) == t % TicksPerDay

\* datetime.isoformat(): "YYYY-MM-DDTHH:MM:SS.ffffff"
IsoText(t) == <<Day(t), "T", TimeOfDay(t)>>
\* sqlite3's default adapter for datetime: "YYYY-MM-DD HH:MM:SS.ffffff"
SqliteText(t) == <<Day(t), " ", TimeOfDay(t)>>

\* " " sorts before "T"
SepRank(sep) == IF sep = " " THEN 0 ELSE 1

\* str.__lt__ on two timestamp texts
TextLess(a, b) ==
  \/ a[1] < b[1]
  \/ a[1] = b[1] /\ SepRank(a[2]) < SepRank(b[2])
  \/ a[1] = b[1] /\ a[2] = b[2] /\ a[3] < b[3]

\* DatabaseRepository.get_session_summaries: one summary per session id of
\* the user, with the message of its oldest row and the timestamp column of
\* its newest row
SummarySids(rows, u) ==
  {rows[i].session_id : i \in {j \in 1..Len(rows) :
                                 rows[j].user_id = u /\ rows[j].session_id # NoSid}}

get_session_summaries(rows, u) ==
  [sid \in SummarySids(rows, u) |->
     LET sel == SelectRows(rows, u, sid) IN
     [session_id |-> sid,
      first_message |-> IF sel[1].message = <<>> THEN <<"(empty)">>
                        ELSE sel[1].message,
      last_updated |-> SqliteText(sel[Len(sel)].timestamp)]]

\* get_sidebar_choices L77-81: the resident sessions with a message
InMemory(u) ==
  {sid \in DOMAIN sessions[u] : objs[sessions[u][sid]].messages # <<>>}

\* get_sidebar_choices L84-108: the summaries, overlaid by the resident
\* sessions whose title is not "New Chat"
Merged(u) ==
  LET db_sessions == get_session_summaries(db, u)
      overlay == {sid \in InMemory(u) : objs[sessions[u][sid]].title # NEW_CHAT}
  IN [sid \in DOMAIN db_sessions \cup overlay |->
        IF sid \in overlay
        THEN [session_id |-> sid,
              title |-> objs[sessions[u][sid]].title,
              last_updated |-> IsoText(objs[sessions[u][sid]].last_updated)]
        ELSE [session_id |-> sid,
              title |-> TitleOf(db_sessions[sid].first_message),
              last_updated |-> db_sessions[sid].last_updated]]

\* mutation: the sort without reverse=True
RECURSIVE SortedDesc_ascending(_, _)
SortedDesc_ascending(merged, sids) ==
  IF sids = {} THEN <<>>
  ELSE LET top == CHOOSE s \in sids :
                    \A t \in sids :
                      ~TextLess(merged[t].last_updated, merged[s].last_updated)
       IN <<merged[top]>> \o SortedDesc_ascending(merged, sids \ {top})

\* sorted(merged.values(), key=last_updated, reverse=True); no two entries
\* of one user carry the same text
RECURSIVE SortedDesc(_, _)
SortedDesc(merged, sids) ==
  IF sids = {} THEN <<>>
  ELSE LET top == CHOOSE s \in sids :
                    \A t \in sids :
                      ~TextLess(merged[s].last_updated, merged[t].last_updated)
       IN <<merged[top]>> \o SortedDesc(merged, sids \ {top})

\* SessionManager.get_sidebar_choices: (title, session_id) pairs
get_sidebar_choices(u) ==
  LET sorted_sessions == SortedDesc(Merged(u), DOMAIN Merged(u))
  IN [i \in 1..Len(sorted_sessions) |->
        <<sorted_sessions[i].title, sorted_sessions[i].session_id>>]

\* ------------------------------------------------- a database with history
\* data/chatbot.db is a file that outlives the process (database.py:24-28,
\* CREATE TABLE IF NOT EXISTS): at start-up the conversations table may hold
\* the rows of sessions of earlier runs.  Two sessions of user 1, written
\* before the clock of this run starts.
StoredRows ==
  <<[conversation_id |-> 1, user_id |-> 1, session_id |-> 1,
     message |-> <<"q", "1">>, response |-> <<"a", "1">>, timestamp |-> 1,
     conversation_type |-> "TECHNICAL", attachments |-> <<>>],
    [conversation_id |-> 2, user_id |-> 1, session_id |-> 2,
     message |-> <<"q", "2">>, response |-> <<"a", "2">>, timestamp |-> 2,
     conversation_type |-> "CASUAL", attachments |-> <<>>],
    [conversation_id |-> 3, user_id |-> 1, session_id |-> 1,
     message |-> <<"q", "3">>, response |-> <<"a", "3">>, timestamp |-> 3,
     conversation_type |-> "TECHNICAL", attachments |-> <<>>]>>

\* respond() has pulled the generator to its end and returns
\* (ui_builder.py:206-211); the generator object is dropped
DropTurn ==
  /\ turn.pc = "done"
  /\ turn' = IdleTurn
  /\ UNCHANGED <<other, rag, chunker, vlmConfigured, objs, sessions, nextSid, db, uploads, clock,
                 nTurns, appended, evicted, restored>>

InitStored ==
  /\ vlmConfigured = TRUE
  /\ objs = <<>>
  /\ sessions = [u \in Users |-> EmptyMap]
  /\ nextSid = 3
  /\ db = StoredRows
  /\ uploads = <<>>
  /\ clock = 3
  /\ turn = IdleTurn
  /\ other = IdleTurn
  /\ nTurns = 0
  /\ appended = <<>>
  /\ evicted = [u \in Users |-> EmptyMap]
  /\ restored = {}
  /\ rag = NoRag
  /\ chunker = NoChunker

\* what the user types in these runs
StoredMessages == {<<"h", "i">>, NEW_CHAT}

\* the handlers of the UI run one after the other: a SessionManager call
\* is made when no turn is in progress
NextStored ==
  \/ \E u \in Users, sid \in 0..(nextSid - 1) :
       turn.pc = "idle" /\ GetOrCreate(u, sid)
  \/ \E u \in Users, sid \in 1..(nextSid - 1) :
       turn.pc = "idle" /\ RestoreFromDb(u, sid)
  \/ \E u \in Users : turn.pc = "idle" /\ ClearUser(u)
  \/ \E u \in Users, sid \in 1..(nextSid - 1), m \in StoredMessages :
       nTurns < MaxTurns /\ BeginTurn(u, sid, m, <<>>)
  \/ StartTurn
  \/ StreamChunk
  \/ StreamError
  \/ FinishTurn
  \/ DropTurn

SpecStored == InitStored /\ [][NextStored]_vars

\* the sessions of the user who has history, seen through the sidebar
SidebarUser == 1

NextSidebar ==
  \/ \E sid \in 0..(nextSid - 1) :
       turn.pc = "idle" /\ GetOrCreate(SidebarUser, sid)
  \/ \E sid \in 1..(nextSid - 1) :
       turn.pc = "idle" /\ RestoreFromDb(SidebarUser, sid)
  \/ turn.pc = "idle" /\ ClearUser(SidebarUser)
  \/ \E sid \in 1..(nextSid - 1), m \in StoredMessages :
       nTurns < MaxTurns /\ BeginTurn(SidebarUser, sid, m, <<>>)
  \/ StartTurn
  \/ StreamChunk
  \/ StreamError
  \/ FinishTurn
  \/ DropTurn

SpecSidebar == InitStored /\ [][NextSidebar]_vars

\* ------------------------------------------ ConversationSession on its own
\* a text longer than the title limit, and one of exactly that length
LongText == [i \in 1..(TITLE_LEN + 1) |-> "x"]
LimitText == [i \in 1..TITLE_LEN |-> "y"]
Contents == {<<>>, <<" ">>, <<"h", "i">>, NEW_CHAT, LimitText, LongText}
Roles == {"user", "assistant"}

\* one call session.add_message(role, content) on the object o
AddMessage(o, role, content) ==
  /\ o \in 1..Len(objs)
  /\ Len(objs[o].messages) < MaxMsgs
  /\ objs' = [objs EXCEPT ![o] = add_message(@, role, content, clock + 1)]
  /\ clock' = clock + 1
  /\ UNCHANGED <<other, rag, chunker, vlmConfigured, sessions, nextSid, db, uploads, turn, nTurns,
                 appended, evicted, restored>>

\* a session object made by get_or_create and every sequence of add_message
\* calls on it
NextTitle ==
  \/ objs = <<>> /\ GetOrCreate(1, NoSid)
  \/ \E role \in Roles, content \in Contents : AddMessage(1, role, content)

SpecTitle == Init /\ [][NextTitle]_vars

\* ------------------------------------------------------------- chunker.py
\* A document is text; the model builds it from lines, text being the lines
\* joined by "\n", so that a document ending in "\n" is one whose last line
\* is empty.
TextLine == <<"x">>
BlankLine == <<>>
MarkerLine == <<"*", "*", "*", "*">>
ShortLine == <<"*", "*", "*">>
PaddedMarkerLine == <<" ", "*", "*", "*", "*", "*", " ">>
LineKinds == {TextLine, BlankLine, MarkerLine, ShortLine, PaddedMarkerLine}

RECURSIVE LinesUpTo(_)
LinesUpTo(n) ==
  IF n = 0 THEN {<<>>}
  ELSE LET shorter == LinesUpTo(n - 1)
       IN  shorter \cup {Append(ls, k) : ls \in shorter, k \in LineKinds}

\* the documents handed to the Chunker
Docs == LinesUpTo(MaxLines) \ {<<>>}

\* the text of a document
TextOf(lines) == Join(lines, <<NL>>)

\* the last position of the longest run of characters of S that starts at i
\* (i - 1 when text[i] is not in S)
RECURSIVE RunEnd(_, _, _)
RunEnd(text, i, S) ==
  IF i <= Len(text) /\ text[i] \in S THEN RunEnd(text, i + 1, S) ELSE i - 1

\* the last position of the match of \n\s*\*{4,}\s*\n that starts at i, or 0:
\* both \s* and \*{4,} are greedy, and the closing \n is the last newline of
\* the whitespace that follows the asterisks
MatchEnd(text, i) ==
  IF i > Len(text) \/ text[i] # NL THEN 0
  ELSE LET w1 == RunEnd(text, i + 1, Whitespace)
           s  == RunEnd(text, w1 + 1, {"*"})
           w2 == RunEnd(text, s + 1, Whitespace)
           nls == {k \in (s + 1)..w2 : text[k] = NL}
       IN  IF s - w1 < MIN_STARS \/ nls = {} THEN 0
           ELSE CHOOSE k \in nls : \A m \in nls : m <= k

\* SEPARATOR_PATTERN.split(text): the pieces between the matches, found left
\* to right without overlap
RECURSIVE SplitFrom(_, _, _, _)
SplitFrom(text, i, start, acc) ==
  IF i > Len(text) THEN Append(acc, SubSeq(text, start, Len(text)))
  ELSE LET e == MatchEnd(text, i)
       IN  IF e > 0
           THEN SplitFrom(text, e + 1, e + 1,
                          Append(acc, SubSeq(text, start, i - 1)))
           ELSE SplitFrom(text, i + 1, start, acc)
SEPARATOR_PATTERN_split(text) == SplitFrom(text, 1, 1, <<>>)

\* len(SEPARATOR_PATTERN.findall(text))
SEPARATOR_PATTERN_count(text) == Len(SEPARATOR_PATTERN_split(text)) - 1

\* [chunk.strip() for chunk in chunks if chunk.strip()]
RECURSIVE StripKept(_)
StripKept(chunks) ==
  IF chunks = <<>> THEN <<>>
  ELSE IF Strip(Head(chunks)) = <<>> THEN StripKept(Tail(chunks))
  ELSE <<Strip(Head(chunks))>> \o StripKept(Tail(chunks))

chunk_by_separator(text) ==
  IF Strip(text) = <<>> THEN <<>>
  ELSE StripKept(SEPARATOR_PATTERN_split(text))

chunk_text(text) ==
  IF Strip(text) = <<>> THEN <<>> ELSE chunk_by_separator(text)

validate_document_format(text) ==
  IF Strip(text) = <<>>
  THEN [valid |-> FALSE, separator_count |-> 0, expected_chunks |-> 0]
  ELSE LET separator_count == SEPARATOR_PATTERN_count(text)
       IN  IF separator_count = 0
           THEN [valid |-> FALSE, separator_count |-> 0, expected_chunks |-> 0]
           ELSE [valid |-> TRUE, separator_count |-> separator_count,
                 expected_chunks |-> separator_count + 1]

NoValidation == [valid |-> FALSE, separator_count |-> 0, expected_chunks |-> 0]

InitChunker ==
  /\ vlmConfigured = TRUE
  /\ objs = <<>>
  /\ sessions = [u \in Users |-> EmptyMap]
  /\ nextSid = 1
  /\ db = <<>>
  /\ uploads = <<>>
  /\ clock = 0
  /\ turn = IdleTurn
  /\ other = IdleTurn
  /\ nTurns = 0
  /\ appended = <<>>
  /\ evicted = [u \in Users |-> EmptyMap]
  /\ restored = {}
  /\ rag = NoRag
  /\ chunker \in {[pc |-> "doc", lines |-> d,
                   chunked |-> FALSE, chunks |-> <<>>,
                   validated |-> FALSE, validation |-> NoValidation] :
                    d \in Docs}

ChunkerFrame ==
  UNCHANGED <<other, rag, vlmConfigured, objs, sessions, nextSid, db, uploads,
              clock, turn, nTurns, appended, evicted, restored>>

\* Chunker.chunk_text(text)
ChunkText ==
  /\ chunker.pc = "doc"
  /\ ~chunker.chunked
  /\ chunker' = [chunker EXCEPT !.chunked = TRUE,
                                !.chunks = chunk_text(TextOf(chunker.lines))]
  /\ ChunkerFrame

\* Chunker.validate_document_format(text)
ValidateDocument ==
  /\ chunker.pc = "doc"
  /\ ~chunker.validated
  /\ chunker' = [chunker EXCEPT
                   !.validated = TRUE,
                   !.validation = validate_document_format(TextOf(chunker.lines))]
  /\ ChunkerFrame

NextChunker == ChunkText \/ ValidateDocument

SpecChunker == InitChunker /\ [][NextChunker]_vars

\* ------------------------------------------- rag_engine.py: the vector index
\* rag.exists and rag.store are the persistent Chroma collection (whether it
\* exists, and its entries in the order of their ids chunk_0, chunk_1, ...);
\* rag.docs is the content of DOCS_FOLDER; rag.collection is whether
\* RAGEngine.collection is set; rag.loads counts the load_documents calls and
\* rag.report is what the last one returned; rag.exists0 and rag.store0 are
\* the collection as initialize found it.
HeaderLine == <<"#", " ", "h">>
ValidDoc == <<TextLine, MarkerLine, TextLine>>
InvalidDoc == <<TextLine, ShortLine, TextLine>>
SectionedDoc == <<TextLine, MarkerLine, TextLine, HeaderLine, TextLine>>
RagDocs == {ValidDoc, InvalidDoc, SectionedDoc}

RECURSIVE FoldersUpTo(_)
FoldersUpTo(n) ==
  IF n = 0 THEN {<<>>}
  ELSE LET fewer == FoldersUpTo(n - 1)
       IN  fewer \cup {Append(fs, d) : fs \in fewer, d \in RagDocs}

\* an entry an earlier indexing left in the collection
OldEntry == [document |-> 0, section |-> <<"o">>, chunk_index |-> 0,
             text |-> <<"o">>]
\* the collections a start can find: none, an empty one, an indexed one
Collections ==
  {[exists |-> FALSE, store |-> <<>>], [exists |-> TRUE, store |-> <<>>],
   [exists |-> TRUE, store |-> <<OldEntry>>]}

\* line.strip().startswith('#')
IsHeader(line) == Strip(line) # <<>> /\ Head(Strip(line)) = "#"

\* s.lstrip('#')
RECURSIVE LStripHash(_)
LStripHash(s) ==
  IF s # <<>> /\ Head(s) = "#" THEN LStripHash(Tail(s)) ELSE s

INTRODUCTION == <<"I", "n", "t", "r", "o", "d", "u", "c", "t", "i", "o", "n">>

\* DocumentProcessor.extract_sections: the loop over text.split('\n')
RECURSIVE SectionsLoop(_, _, _, _)
SectionsLoop(lines, i, current_section, sections) ==
  IF i > Len(lines)
  THEN IF Strip(current_section.content) # <<>>
       THEN Append(sections, current_section) ELSE sections
  ELSE IF IsHeader(lines[i])
       THEN SectionsLoop(lines, i + 1,
              [title |-> Strip(LStripHash(Strip(lines[i]))), content |-> <<>>],
              IF Strip(current_section.content) # <<>>
              THEN Append(sections, current_section) ELSE sections)
       ELSE SectionsLoop(lines, i + 1,
              [current_section EXCEPT !.content = @ \o lines[i] \o <<NL>>],
              sections)

extract_sections(lines) ==
  SectionsLoop(lines, 1, [title |-> INTRODUCTION, content |-> <<>>], <<>>)

\* the entries of one section: its chunks with their metadata
RECURSIVE ChunkEntries(_, _, _, _)
ChunkEntries(chunks, i, doc, section_title) ==
  IF i > Len(chunks) THEN <<>>
  ELSE (IF Strip(chunks[i]) = <<>> THEN <<>>
        ELSE <<[document |-> doc, section |-> section_title,
                chunk_index |-> i - 1, text |-> chunks[i]]>>)
       \o ChunkEntries(chunks, i + 1, doc, section_title)

\* the loop over the sections of one document
RECURSIVE SectionEntries(_, _, _)
SectionEntries(sections, k, doc) ==
  IF k > Len(sections) THEN <<>>
  ELSE (IF Strip(sections[k].content) = <<>> THEN <<>>
        ELSE ChunkEntries(chunk_text(sections[k].content), 1, doc,
                          sections[k].title))
       \o SectionEntries(sections, k + 1, doc)

\* the loop of load_documents over md_files: a document that fails the
\* validation is skipped, the others contribute the chunks of their sections
RECURSIVE FilesLoop(_, _, _)
FilesLoop(docs, d, acc) ==
  IF d > Len(docs) THEN acc
  ELSE IF ~validate_document_format(TextOf(docs[d])).valid
       THEN FilesLoop(docs, d + 1,
                      [acc EXCEPT !.skipped_docs = Append(@, d)])
       ELSE FilesLoop(docs, d + 1,
              [acc EXCEPT !.all_chunks =
                 @ \o SectionEntries(extract_sections(docs[d]), 1, d)])

NoReport == [ok |-> FALSE, kind |-> "none", nums |-> <<>>]

\* RAGEngine.load_documents; chroma is whether the Chroma client answers.
\* The result has the fields of rag that the call changes.
load_documents(r, chroma) ==
  IF chroma # "ok"
  THEN [exists |-> r.exists, store |-> r.store, collection |-> r.collection,
        report |-> [ok |-> FALSE, kind |-> "Error loading documents",
                    nums |-> <<>>]]
  ELSE IF r.docs = <<>>
  THEN [exists |-> TRUE, store |-> <<>>, collection |-> TRUE,
        report |-> [ok |-> FALSE, kind |-> "No documents found",
                    nums |-> <<>>]]
  ELSE LET acc == FilesLoop(r.docs, 1,
                            [all_chunks |-> <<>>, skipped_docs |-> <<>>])
       IN  IF acc.all_chunks = <<>>
           THEN [exists |-> TRUE, store |-> <<>>, collection |-> TRUE,
                 report |-> [ok |-> FALSE, kind |-> "No chunks created",
                             nums |-> <<Len(r.docs), Len(acc.skipped_docs)>>]]
           ELSE [exists |-> TRUE, store |-> acc.all_chunks,
                 collection |-> TRUE,
                 report |-> [ok |-> TRUE, kind |-> "Indexed",
                             nums |-> <<Len(acc.all_chunks), Len(r.docs)>>]]

\* VectorStore.get_collection: the existing collection, or, when the client
\* has none, a collection that create_collection creates empty; it raises only
\* when the client does not answer at all
get_collection(r, chroma) ==
  IF chroma # "ok" THEN [raised |-> TRUE, exists |-> r.exists, store |-> r.store]
  ELSE IF r.exists THEN [raised |-> FALSE, exists |-> TRUE, store |-> r.store]
  ELSE [raised |-> FALSE, exists |-> TRUE, store |-> <<>>]

Chroma == {"ok", "down"}

InitRag ==
  /\ vlmConfigured = TRUE
  /\ objs = <<>>
  /\ sessions = [u \in Users |-> EmptyMap]
  /\ nextSid = 1
  /\ db = <<>>
  /\ uploads = <<>>
  /\ clock = 0
  /\ turn = IdleTurn
  /\ other = IdleTurn
  /\ nTurns = 0
  /\ appended = <<>>
  /\ evicted = [u \in Users |-> EmptyMap]
  /\ restored = {}
  /\ chunker = NoChunker
  /\ rag \in {[pc |-> "new", exists |-> c.exists, store |-> c.store,
               docs |-> ds, collection |-> FALSE, loads |-> 0,
               report |-> NoReport, exists0 |-> c.exists,
               store0 |-> c.store, chroma |-> "ok"] :
                c \in Collections, ds \in FoldersUpTo(MaxDocs)}

RagFrame ==
  UNCHANGED <<other, chunker, vlmConfigured, objs, sessions, nextSid, db, uploads,
              clock, turn, nTurns, appended, evicted, restored>>

\* RAGEngine.initialize; chroma is the client at get_collection, later the
\* client at the load_documents of the except branch
Initialize(chroma, later) ==
  /\ rag.pc = "new"
  /\ LET got == get_collection(rag, chroma)
     IN  IF ~got.raised
         THEN rag' = [rag EXCEPT !.pc = "ready", !.chroma = chroma,
                                 !.exists = got.exists, !.store = got.store,
                                 !.collection = TRUE]
         ELSE LET ld == load_documents(rag, later)
              IN  rag' = [rag EXCEPT !.pc = "ready", !.chroma = chroma,
                                     !.exists = ld.exists, !.store = ld.store,
                                     !.collection = ld.collection,
                                     !.report = ld.report, !.loads = @ + 1]
  /\ RagFrame

\* RAGEngine.load_documents called on the initialized engine
LoadDocuments(chroma) ==
  /\ rag.pc = "ready"
  /\ rag.loads < MaxLoads
  /\ LET ld == load_documents(rag, chroma)
     IN  rag' = [rag EXCEPT !.exists = ld.exists, !.store = ld.store,
                            !.collection = ld.collection,
                            !.report = ld.report, !.loads = @ + 1]
  /\ RagFrame

NextRag ==
  \/ \E chroma \in Chroma, later \in Chroma : Initialize(chroma, later)
  \/ \E chroma \in Chroma : LoadDocuments(chroma)

SpecRag == InitRag /\ [][NextRag]_vars

\* ------------------------------------ rag_engine.py: format_context alone
\* the passages a retrieval result is made of: those of Ranking, one more of
\* the document and section of the first, and one whose metadata holds
\* neither key
ResultPassages ==
  {Ranking[i] : i \in 1..Len(Ranking)}
    \cup {[doc |-> "p4", document |-> "d1", section |-> "s1"],
          [doc |-> "p5", document |-> Missing, section |-> Missing]}

RECURSIVE ResultsUpTo(_)
ResultsUpTo(n) ==
  IF n = 0 THEN {<<>>}
  ELSE LET fewer == ResultsUpTo(n - 1)
       IN  fewer \cup {Append(r, p) : r \in fewer, p \in ResultPassages}

InitContext ==
  /\ vlmConfigured = TRUE
  /\ objs = <<>>
  /\ sessions = [u \in Users |-> EmptyMap]
  /\ nextSid = 1
  /\ db = <<>>
  /\ uploads = <<>>
  /\ clock = 0
  /\ turn = IdleTurn
  /\ other = IdleTurn
  /\ nTurns = 0
  /\ appended = <<>>
  /\ evicted = [u \in Users |-> EmptyMap]
  /\ restored = {}
  /\ chunker = NoChunker
  /\ rag \in {[pc |-> "results", results |-> r, formatted |-> FALSE,
               context |-> <<>>] : r \in ResultsUpTo(MaxResults)}

\* RAGEngine.format_context(results)
FormatContext ==
  /\ rag.pc = "results"
  /\ ~rag.formatted
  /\ rag' = [rag EXCEPT !.formatted = TRUE,
                        !.context = format_context(rag.results)]
  /\ RagFrame

NextContext == FormatContext

SpecContext == InitContext /\ [][NextContext]_vars

\* ------------------------------------------ the consumer stops pulling
\* mutation: closing the generator runs the rest of the handler's body
CloseTurn_appendsPair ==
  /\ turn.pc \in {"stream", "nocontext"}
  /\ turn.yields # <<>>
  /\ turn' = [turn EXCEPT !.pc = "closed"]
  /\ objs' = [objs EXCEPT ![turn.sess] =
                add_message(add_message(@, "user", turn.display, clock + 1),
                            "assistant", turn.full, clock + 2)]
  /\ UNCHANGED <<other, rag, chunker, vlmConfigured, sessions, nextSid, db, uploads,
                 clock, nTurns, appended, evicted, restored>>

\* respond() is cancelled while process_stream is suspended at a yield
\* (message_handler.py L107, L115, L121, L212, L218): the generator is closed
\* or dropped; GeneratorExit is no Exception, so the handler of L92-94 does
\* not run, and no statement after the yield does
CloseTurn ==
  /\ turn.pc \in {"stream", "nocontext"}
  /\ turn.yields # <<>>
  /\ turn' = [turn EXCEPT !.pc = "closed"]
  /\ UNCHANGED <<other, rag, chunker, vlmConfigured, objs, sessions, nextSid, db,
                 uploads, clock, nTurns, appended, evicted, restored>>

\* the pipeline with a consumer that may abandon the stream
NextAbandon == Next \/ CloseTurn

SpecAbandon == Init /\ [][NextAbandon]_vars

\* ------------------------------------------- two turns on one session
\* Gradio runs each respond() call on its own worker; two calls for one
\* session (two tabs, a second message sent before the first answer ended)
\* hold two process_stream generators over one ConversationSession object.
\* turn is the generator being pulled, other the suspended one.
InterleavedUser == 1
InterleavedMessages == {<<"h", "i">>, <<"y", "o">>}

\* the worker of the other call is scheduled
SwitchTurn ==
  /\ turn # other
  /\ turn' = other
  /\ other' = turn
  /\ UNCHANGED <<rag, chunker, vlmConfigured, objs, sessions, nextSid, db,
                 uploads, clock, nTurns, appended, evicted, restored>>

NextInterleaved ==
  \/ objs = <<>> /\ GetOrCreate(InterleavedUser, NoSid)
  \/ \E sid \in 1..(nextSid - 1), m \in InterleavedMessages :
       /\ nTurns < MaxInFlight
       /\ turn.pc = "idle"
       /\ BeginTurn(InterleavedUser, sid, m, <<>>)
  \/ StartTurn
  \/ StreamChunk
  \/ StreamError
  \/ FinishTurn
  \/ SwitchTurn

SpecInterleaved == Init /\ [][NextInterleaved]_vars

\* ================================================================ claims
SessionUnchanged == objs[turn.sess].messages = turn.msgs0
NothingPersisted == Len(db) = turn.db0 /\ Len(uploads) = turn.up0
LastYield == turn.yields[Len(turn.yields)]
IsErrorString(v) ==
  v # <<>> /\ v[1] \in {TopLevelError(ExcText)[1], TxtReadError(ExcText)[1],
                        PdfError(ExcText)[1], AnalyzeError("", ExcText)[1],
                        PDF_IMPORT_MSG[1]}

\* C1: a turn in which some step raised an exception ends with an error
\* string as its last yield, leaves the session's message list as it was
\* before the turn, and writes no record.
C1_FailedTurnLeavesNoTrace ==
  (turn.pc = "done" /\ turn.raised) =>
    /\ turn.yields # <<>>
    /\ IsErrorString(LastYield)
    /\ SessionUnchanged
    /\ Len(db) = turn.db0

Pair(r) == [message |-> r.message, response |-> r.response]

\* C2: for every (user, session) the persisted records are, one for one and
\* in order, the user/assistant pairs that turns appended to that session.
C2_OneRecordPerPair ==
  \A u \in Users, sid \in 1..(nextSid - 1) :
    LET rows == SelectRows(db, u, sid)
        pairs == SelectRows(appended, u, sid)
    IN /\ Len(rows) = Len(pairs)
       /\ \A i \in 1..Len(rows) : Pair(rows[i]) = Pair(pairs[i])

\* C3: when restore_from_db rebuilds a session that clear_user evicted, the
\* rebuilt message list equals the list the session had when it was evicted.
C3_RestoreReproducesMessages ==
  [][\A u \in Users, sid \in 1..(nextSid - 1) :
       (/\ sid \notin DOMAIN sessions[u]
        /\ sid \in DOMAIN sessions'[u]
        /\ sessions'[u][sid] \in restored'
        /\ sid \in DOMAIN evicted[u])
       => objs'[sessions'[u][sid]].messages = evicted[u][sid]]_vars

C5_YieldsCumulative ==
  /\ \A i \in 2..Len(turn.yields) : IsPrefix(turn.yields[i - 1], turn.yields[i])
  /\ (turn.pc = "done" /\ Len(db) > turn.db0)
       => db[Len(db)].response = LastYield

FailedExtraction(outcome) == outcome \in {"fail", "raise", "importerror"}

\* C6: when the extraction of the k-th kept attachment fails, no later
\* attachment is touched or extracted, the k-th is extracted at most once,
\* no retrieval or generation is made, the turn has ended with an error
\* message, and session, uploads and records are unchanged.
C6_ExtractionFailureAborts ==
  \A k \in 1..Len(turn.rem) :
    (turn.branch = "files" /\ FailedExtraction(turn.fileOut[turn.rem[k]])) =>
      /\ turn.pc = "done"
      /\ \A j \in (k + 1)..Len(turn.rem) :
           turn.extractCalls[j] = 0 /\ turn.fileOut[turn.rem[j]] = Untouched
      /\ turn.extractCalls[k] <= 1
      /\ turn.retrieveCalls = 0
      /\ turn.genCalls = 0
      /\ IsErrorString(LastYield)
      /\ SessionUnchanged
      /\ NothingPersisted

C6_Witness ==
  /\ turn.pc = "done"
  /\ turn.files = <<".png", ".png">>
  /\ turn.fileOut = <<"fail", Untouched>>
  /\ turn.extractCalls = <<1, 0>>
  /\ LastYield = AnalyzeError(FileName(".png"), ExcText)

\* C7: a turn whose retrieval returned no passage never calls the generator,
\* yields only the no-information reply, appends the user entry and that
\* reply to the session and writes one record with that reply.
C7_RetrievalMissCompletes ==
  (turn.pc = "done" /\ turn.ret = "miss") =>
    /\ turn.genCalls = 0
    /\ turn.yields = <<NO_CONTEXT_REPLY>>
    /\ objs[turn.sess].messages =
         turn.msgs0 \o <<[role |-> "user", content |-> turn.display],
                         [role |-> "assistant", content |-> NO_CONTEXT_REPLY]>>
    /\ Len(db) = turn.db0 + 1
    /\ db[Len(db)].response = NO_CONTEXT_REPLY

\* C8: a text-only turn classified casual never calls the retriever, calls
\* the generator with an empty context, and its record has type CASUAL.
C8_CasualTurn ==
  (turn.pc = "done" /\ turn.branch = "text" /\ turn.ctype = "CASUAL") =>
    /\ turn.retrieveCalls = 0
    /\ turn.genCalls = 1
    /\ turn.genContext = <<>>
    /\ Len(db) = turn.db0 + 1
    /\ db[Len(db)].conversation_type = "CASUAL"

TurnTypes == {"TECHNICAL", "CASUAL", "CHAT", "IMAGE_ANALYSIS"}

\* C9: every record has a turn type among TECHNICAL, CASUAL, CHAT and
\* IMAGE_ANALYSIS, and a substantive text-only turn whose retrieval returned
\* passages is recorded as TECHNICAL.
C9_TurnTypes ==
  /\ \A i \in 1..Len(db) : db[i].conversation_type \in TurnTypes
  /\ (turn.pc = "done" /\ turn.branch = "text" /\ turn.ctype # "CASUAL"
      /\ turn.ret = "hit")
       => /\ Len(db) = turn.db0 + 1
          /\ db[Len(db)].conversation_type = "TECHNICAL"

IsUnsupported(ext) ==
  ext # ".txt" /\ ext # ".pdf" /\ ext \notin SUPPORTED_IMAGE_EXTS
HasUnsupported(files) == \E i \in 1..Len(files) : IsUnsupported(files[i])
FirstUnsupported(files) ==
  CHOOSE k \in 1..Len(files) :
    IsUnsupported(files[k]) /\ \A i \in 1..(k - 1) : ~IsUnsupported(files[i])

\* C10 as stated: every turn of an active user that carries an attachment
\* with an unsupported extension ends with the unsupported-file-type message
\* naming that extension, session unchanged, no record.
C10_AlwaysUnsupportedMessage ==
  (turn.pc = "done" /\ turn.status = "active" /\ HasUnsupported(turn.files)) =>
    /\ \E i \in 1..Len(turn.files) :
         IsUnsupported(turn.files[i]) /\ LastYield = UnsupportedMsg(turn.files[i])
    /\ SessionUnchanged
    /\ Len(db) = turn.db0

\* C10 amended: such a turn ends at its first yield with session, uploads
\* and records unchanged; its only yield is the unsupported-file-type message
\* naming the first unsupported extension when the extraction service is
\* configured, every .txt attachment was read and every attachment before
\* the unsupported one was extracted successfully.
C10_UnsupportedFileRejected ==
  (turn.pc \notin {"idle", "start"} /\ turn.status = "active"
   /\ HasUnsupported(turn.files)) =>
    /\ turn.pc = "done"
    /\ SessionUnchanged
    /\ NothingPersisted
    /\ LET k == FirstUnsupported(turn.files) IN
       (/\ vlmConfigured
        /\ \A i \in 1..Len(turn.files) :
             turn.files[i] = ".txt" => turn.fileOut[i] = "ok"
        /\ \A i \in 1..(k - 1) : turn.fileOut[i] = "ok")
       => turn.yields = <<UnsupportedMsg(turn.files[k])>>

C10_Witness ==
  /\ turn.pc = "done"
  /\ turn.status = "active"
  /\ turn.files = <<".png", ".exe">>
  /\ turn.fileOut = <<"ok", Untouched>>
  /\ turn.yields = <<UnsupportedMsg(".exe")>>

\* C11: a turn of an active user with empty or whitespace-only text and no
\* attachment yields the prompt-for-input message and nothing else, before
\* any classification, extraction, retrieval or generation call; the session
\* is unchanged and nothing is persisted.
C11_EmptyInputRejected ==
  (/\ turn.pc \notin {"idle", "start"}
   /\ turn.status = "active"
   /\ Strip(turn.message) = <<>>
   /\ turn.files = <<>>) =>
    /\ turn.pc = "done"
    /\ turn.yields = <<EMPTY_INPUT_MSG>>
    /\ turn.classifyCalls = 0
    /\ turn.retrieveCalls = 0
    /\ turn.genCalls = 0
    /\ turn.extractCalls = <<>>
    /\ SessionUnchanged
    /\ NothingPersisted

C11_Witness ==
  /\ turn.pc = "done"
  /\ turn.status = "active"
  /\ turn.message = <<" ">>
  /\ turn.files = <<>>
  /\ turn.yields = <<EMPTY_INPUT_MSG>>

\* the positions of the attachments that are not .txt files, in order
RECURSIVE NonTxtPositions(_, _)
NonTxtPositions(files, i) ==
  IF i > Len(files) THEN <<>>
  ELSE (IF files[i] = ".txt" THEN <<>> ELSE <<i>>) \o NonTxtPositions(files, i + 1)

\* the text, when there is some, followed by the contents of the .txt
\* attachments in attachment order
RECURSIVE TxtContents(_, _)
TxtContents(files, i) ==
  IF i > Len(files) THEN <<>>
  ELSE (IF files[i] = ".txt" THEN <<TxtContent(i)>> ELSE <<>>)
       \o TxtContents(files, i + 1)

CombinedText(message, files) ==
  Join((IF Strip(message) # <<>> THEN <<Strip(message)>> ELSE <<>>)
         \o TxtContents(files, 1),
       <<NL, NL>>)

AllTxtRead ==
  /\ turn.pc \notin {"idle", "start"}
  /\ turn.status = "active"
  /\ \E i \in 1..Len(turn.files) : turn.files[i] = ".txt"
  /\ \A i \in 1..Len(turn.files) : turn.files[i] = ".txt" => turn.fileOut[i] = "ok"

\* C12: once the .txt attachments of a turn that has some have been read,
\* the attachment list holds exactly the other attachments, in order, and
\* the text is the
\* original text and the file contents in attachment order, joined by blank
\* lines; a turn whose only attachments are .txt files takes the text-only
\* branch with that text, and extraction is counted for no .txt file.
C12_TxtAbsorbed ==
  AllTxtRead =>
    /\ turn.rem = NonTxtPositions(turn.files, 1)
    /\ turn.msg = CombinedText(turn.message, turn.files)
    /\ Len(turn.extractCalls) = Len(turn.rem)
    /\ (turn.rem = <<>>) =>
         /\ turn.branch = "text"
         /\ turn.classifyCalls = 1
         /\ turn.display = turn.msg
         /\ turn.genCalls + turn.retrieveCalls >= 1
         /\ turn.query = turn.msg

C12_Witness ==
  /\ turn.pc = "stream"
  /\ turn.message = <<"h", "i">>
  /\ turn.files = <<".txt", ".txt">>
  /\ turn.branch = "text"
  /\ turn.query = <<"h", "i", NL, NL, "t", "1", NL, NL, "t", "2">>

NoMessage == <<"<none>">>

\* the content of the first user message that is not whitespace-only
RECURSIVE FirstUserText(_)
FirstUserText(msgs) ==
  IF msgs = <<>> THEN NoMessage
  ELSE IF Head(msgs).role = "user" /\ Strip(Head(msgs).content) # <<>>
       THEN Head(msgs).content
       ELSE FirstUserText(Tail(msgs))

\* C13: after any sequence of add_message calls the title is the one derived
\* from the first user message with non-whitespace content (its first 50
\* characters and an ellipsis when it is longer), or "New Chat" when there is
\* no such message; so later calls never change it.
C13_TitleFromFirstUserMessage ==
  \A o \in 1..Len(objs) :
    LET first == FirstUserText(objs[o].messages) IN
    objs[o].title = IF first = NoMessage THEN NEW_CHAT
                    ELSE IF Len(first) > 50
                         THEN SubSeq(first, 1, 50) \o <<"...">>
                         ELSE first

\* C14: a get_or_create(user_id, session_id) call that does not find
\* session_id resident for the user registers a new, empty session whose id
\* differs from the supplied id and from every id resident for that user.
C14_FreshSessionId ==
  [][\A u \in Users, sid \in 0..(nextSid - 1) :
       (GetOrCreate(u, sid) /\ ~(sid # NoSid /\ sid \in DOMAIN sessions[u])) =>
         \E id \in DOMAIN sessions'[u] \ DOMAIN sessions[u] :
           /\ id # sid
           /\ objs'[sessions'[u][id]].session_id = id
           /\ objs'[sessions'[u][id]].messages = <<>>]_vars

\* C15: a restore_from_db(user_id, session_id) call that does not find the
\* id resident builds a session whose messages are the persisted turns of
\* that session, oldest first, each as a user entry followed by an assistant
\* entry; a call that finds the id resident changes nothing.
C15_RestoreReplaysRecords ==
  [][\A u \in Users, sid \in 1..(nextSid - 1) :
       RestoreFromDb(u, sid) =>
         /\ sid \in DOMAIN sessions'[u]
         /\ objs'[sessions'[u][sid]].messages =
              Replay(SelectRows(db, u, sid))]_vars

Persisted(u, sid) == SelectRows(db, u, sid) # <<>>
ResidentWithMessages(u, sid) ==
  sid \in DOMAIN sessions[u] /\ objs[sessions[u][sid]].messages # <<>>
SidebarSids(u) ==
  {get_sidebar_choices(u)[i][2] : i \in 1..Len(get_sidebar_choices(u))}

\* C16: the sidebar of a user has at most one entry per session id, has an
\* entry for every session that is persisted for the user or resident with
\* a message, and shows the in-memory title for a session that is both.
C16_SidebarMerge ==
  \A u \in Users :
    LET choices == get_sidebar_choices(u) IN
    /\ \A i, j \in 1..Len(choices) : choices[i][2] = choices[j][2] => i = j
    /\ \A sid \in 1..(nextSid - 1) :
         (Persisted(u, sid) \/ ResidentWithMessages(u, sid))
           => sid \in SidebarSids(u)
    /\ \A i \in 1..Len(choices) :
         (Persisted(u, choices[i][2]) /\ ResidentWithMessages(u, choices[i][2]))
           => choices[i][1] = objs[sessions[u][choices[i][2]]].title

\* the time of the last update of the session behind a sidebar entry: of the
\* in-memory session when the entry comes from memory, else of the newest
\* persisted turn
EntryFromMemory(u, sid) ==
  ResidentWithMessages(u, sid) /\ objs[sessions[u][sid]].title # NEW_CHAT
LastUpdate(u, sid) ==
  IF EntryFromMemory(u, sid) THEN objs[sessions[u][sid]].last_updated
  ELSE LET sel == SelectRows(db, u, sid) IN sel[Len(sel)].timestamp

\* C17: of any two entries of a user's sidebar, the one whose session was
\* updated later comes first, whether the entries come from memory or from
\* persistence.
C17_SidebarNewestFirst ==
  \A u \in Users :
    LET choices == get_sidebar_choices(u) IN
    \A i, j \in 1..Len(choices) :
      LastUpdate(u, choices[i][2]) > LastUpdate(u, choices[j][2]) => i < j

C17_Witness ==
  LET choices == get_sidebar_choices(1) IN
  /\ Len(choices) = 3
  /\ EntryFromMemory(1, choices[1][2])
  /\ ~EntryFromMemory(1, choices[2][2])
  /\ choices[2][2] = 1
  /\ choices[3][2] = 2

\* C18: a clear_user(user_id) call leaves the user without resident session
\* and changes nothing else: the records, the uploads, the session objects
\* and the resident sessions of every other user are as before, and every
\* evicted session that has records can still be rebuilt from them.
C18_ClearUserFrame ==
  [][\A u \in Users :
       ClearUser(u) =>
         /\ DOMAIN sessions'[u] = {}
         /\ db' = db
         /\ uploads' = uploads
         /\ objs' = objs
         /\ \A v \in Users \ {u} : sessions'[v] = sessions[v]
         /\ \A sid \in DOMAIN sessions[u] :
              Persisted(u, sid) =>
                Replay(get_conversations_by_session(db', u, sid))
                  = Replay(SelectRows(db, u, sid))]_vars

IsMarkerLine(line) ==
  LET t == Strip(line)
  IN  Len(t) >= MIN_STARS /\ \A i \in 1..Len(t) : t[i] = "*"
HasMarkerLine(lines) == \E i \in 1..Len(lines) : IsMarkerLine(lines[i])
Chunked == chunker.pc = "doc" /\ chunker.chunked
Validated == chunker.pc = "doc" /\ chunker.validated

\* C20: for every document with at least one marker line the Chunker returns
\* exactly separator_count + 1 segments, separator_count being the count
\* validate_document_format reports, and every segment is non-empty and has
\* no leading or trailing whitespace.
C20_SegmentsPerMarker ==
  (Chunked /\ Validated /\ HasMarkerLine(chunker.lines)) =>
    /\ Len(chunker.chunks) = chunker.validation.separator_count + 1
    /\ \A i \in 1..Len(chunker.chunks) :
         /\ chunker.chunks[i] # <<>>
         /\ Strip(chunker.chunks[i]) = chunker.chunks[i]

HasValidDoc(docs) ==
  \E d \in 1..Len(docs) : validate_document_format(TextOf(docs[d])).valid
\* initialize has returned, nothing else has run, and the client answered
Initialized == rag.pc = "ready" /\ rag.chroma = "ok" /\ rag.loads = 0

\* C19: after initialize() an index that existed is reused without
\* re-indexing, and when none existed the engine rebuilds it from the
\* documents, so that with a valid document present the index is non-empty.
C19_InitializeReusesOrRebuilds ==
  Initialized =>
    /\ rag.exists0 => (rag.collection /\ rag.store = rag.store0)
    /\ (~rag.exists0 /\ HasValidDoc(rag.docs)) => rag.store # <<>>

\* C21: for every document with no marker line validate_document_format
\* returns valid = false and the Chunker returns the empty list, never the
\* unsplit text.
C21_NoMarkerNoChunks ==
  (Chunked /\ Validated /\ ~HasMarkerLine(chunker.lines)) =>
    /\ ~chunker.validation.valid
    /\ chunker.chunks = <<>>

IsValidDoc(lines) == validate_document_format(TextOf(lines)).valid
\* the entries of the index that come from document d, in index order
EntriesOf(d) == SelectSeq(rag.store, LAMBDA e : e.document = d)
SkippedCount ==
  Cardinality({d \in 1..Len(rag.docs) : ~IsValidDoc(rag.docs[d])})
\* the last load_documents call ran to its end over a non-empty folder
LoadRan == rag.loads > 0 /\ rag.report.kind \in {"No chunks created", "Indexed"}
\* the report names the number of skipped documents
ReportStatesSkipped ==
  rag.report.kind = "No chunks created" /\ rag.report.nums[2] = SkippedCount
ValidDocsIndexed ==
  \A d \in 1..Len(rag.docs) :
    IF IsValidDoc(rag.docs[d])
    THEN EntriesOf(d) = SectionEntries(extract_sections(rag.docs[d]), 1, d)
    ELSE EntriesOf(d) = <<>>

\* C22: an indexing run skips a document that fails validation and goes on:
\* every valid document has its chunks indexed, no chunk of an invalid one
\* is, and the final report states how many documents were skipped.
C22_InvalidDocSkipped ==
  (LoadRan /\ SkippedCount > 0) => (ValidDocsIndexed /\ ReportStatesSkipped)

Formatted == rag.pc = "results" /\ rag.formatted
PassageTexts == {p.doc : p \in ResultPassages}
\* the positions of the context string that hold a passage, left to right
PassagePositions(context) ==
  SelectSeq([k \in 1..Len(context) |-> k],
            LAMBDA k : context[k] \in PassageTexts)
\* what stands between the previous separator and the newline before
\* position k
HeaderBefore(context, k) == SubSeq(context, k - 8, k - 2)
IsHeaderOf(h, i, p) ==
  /\ Len(h) = 7
  /\ h[1] = "[Source " /\ h[2] = Digit(i) /\ h[7] = "]"
  /\ h[4] = MetadataGet(p.document)
  /\ h[6] = MetadataGet(p.section)

\* C23: format_context returns the empty string for a result without
\* passages; for n >= 1 passages each passage appears exactly once, in
\* ranked order, right after its own header, and the n headers are pairwise
\* distinct.
C23_FormatContext ==
  Formatted =>
    IF rag.results = <<>> THEN rag.context = <<>>
    ELSE LET pos == PassagePositions(rag.context)
             n == Len(rag.results)
         IN  /\ Len(pos) = n
             /\ \A i \in 1..n :
                  /\ rag.context[pos[i]] = rag.results[i].doc
                  /\ pos[i] > 8
                  /\ rag.context[pos[i] - 1] = NL
                  /\ IsHeaderOf(HeaderBefore(rag.context, pos[i]), i,
                                rag.results[i])
             /\ \A i, j \in 1..n :
                  i # j => HeaderBefore(rag.context, pos[i])
                             # HeaderBefore(rag.context, pos[j])

\* three passages, two of them of one document and section, one without
\* metadata, have been formatted
C23_Witness ==
  /\ Formatted
  /\ rag.results = <<Ranking[1],
                     [doc |-> "p4", document |-> "d1", section |-> "s1"],
                     [doc |-> "p5", document |-> Missing, section |-> Missing]>>
  /\ Len(rag.context) = 37

\* the turn is between two yields of its generation stream
Yielding == turn.pc \in {"start", "stream"} /\ turn'.pc = "stream"
\* the step that resumes the turn after its last fragment, or after the
\* no-information reply, and runs it to its end
Completing == turn.pc \in {"stream", "nocontext"} /\ turn'.pc = "done"
PairAppended ==
  objs'[turn.sess].messages =
    objs[turn.sess].messages
      \o <<[role |-> "user", content |-> turn.display],
           [role |-> "assistant", content |-> turn.full]>>
\* a record of the turn is written, stamped after the pair was appended
RecordWrittenAfter ==
  /\ Len(db') = Len(db) + 1
  /\ db'[Len(db')].response = turn.full
  /\ db'[Len(db')].timestamp > objs'[turn.sess].last_updated

\* C24: in every completed turn the stream is consumed first, then the user
\* entry and the assistant entry are appended to the session, and only then
\* the record is written; nothing is appended while fragments are yielded.
C24_AppendThenRecord ==
  [][/\ Yielding => (objs' = objs /\ db' = db)
     /\ Completing => (PairAppended /\ RecordWrittenAfter)]_vars

\* the durable copies a record's attachment list points to
ReferencedCopies ==
  UNION {{db[i].attachments[j].path : j \in 1..Len(db[i].attachments)} :
           i \in 1..Len(db)}
\* every durable copy is in the attachment list of a record
NoOrphanCopies == \A k \in 1..Len(uploads) : k \in ReferencedCopies
\* every attachment entry points to a durable copy
NoDanglingEntry == ReferencedCopies \subseteq 1..Len(uploads)

\* C25: attachments are copied only at the persistence step of a
\* file-bearing turn, after generation; after a turn every durable copy is
\* referenced by the attachment list of a persisted record, and every
\* attachment entry points to a durable copy.
C25_CopiesBelongToRecords ==
  [][/\ uploads' # uploads => (Completing /\ turn.branch = "files")
     /\ turn'.pc = "done" => (NoOrphanCopies' /\ NoDanglingEntry')]_vars

\* sub occurs in s as a run of consecutive pieces
Contains(s, sub) ==
  \E i \in 1..(Len(s) - Len(sub) + 1) : SubSeq(s, i, i + Len(sub) - 1) = sub

\* C26: in a substantive turn (text-only classified non-casual, or
\* file-bearing) whose retrieval returned a context, the prompt sent to the
\* model contains that context, whatever the generator's own classification.
C26_ContextReachesPrompt ==
  (/\ turn.genCalls = 1
   /\ turn.ret = "hit"
   /\ (turn.branch = "files" \/ (turn.branch = "text" /\ turn.ctype # "CASUAL")))
    => Contains(turn.prompt, format_context(turn.docs))

\* C27: after any sequence of get_or_create, restore_from_db, clear_user and
\* completed turns of one user, every resident session whose id has
\* persisted records holds the oldest-first replay of those records; a
\* get_or_create with a persisted, non-resident id never hides the history.
C27_ResidentMatchesRecords ==
  \A sid \in DOMAIN sessions[SidebarUser] :
    LET rows == SelectRows(db, SidebarUser, sid)
    IN  (rows # <<>> /\ turn.pc \in {"idle", "done"})
          => objs[sessions[SidebarUser][sid]].messages = Replay(rows)

\* C28: when the consumer stops pulling after at least one fragment and
\* before the stream is exhausted, the turn has no effect: the session's
\* message list is unchanged, no attachment is copied and no record written.
C28_AbandonedTurnNoEffect ==
  turn.pc = "closed" => (SessionUnchanged /\ NothingPersisted)

\* a file-bearing turn was abandoned after its second fragment
C28_Witness ==
  /\ turn.pc = "closed"
  /\ turn.branch = "files"
  /\ Len(turn.yields) = 2
  /\ ~turn.ended

\* both generators are alive and each has yielded a fragment
BothStreaming ==
  /\ turn.pc = "stream" /\ turn.yields # <<>>
  /\ other.pc = "stream" /\ other.yields # <<>>
  /\ turn.sess = other.sess

\* C29: when two turns on one session are interleaved at fragment-yield
\* boundaries, each turn that completes contributes one user entry followed
\* at once by its own assistant entry, the pairs stand in the order the
\* turns completed, and each completed turn writes exactly one record.
C29_InterleavedPairsAndRecords ==
  \A sid \in DOMAIN sessions[InterleavedUser] :
    LET pairs == SelectRows(appended, InterleavedUser, sid)
        rows == SelectRows(db, InterleavedUser, sid)
    IN  /\ objs[sessions[InterleavedUser][sid]].messages = Replay(pairs)
        /\ Len(rows) = Len(pairs)

\* every .txt attachment of the turn was read, none is left to extract from,
\* and the text that results is empty or whitespace-only
EmptyAfterAbsorb ==
  /\ turn.pc \notin {"idle", "start"}
  /\ turn.status = "active"
  /\ \A i \in 1..Len(turn.files) :
       turn.files[i] = ".txt" /\ turn.fileOut[i] \in {"ok", "empty"}
  /\ Strip(turn.msg) = <<>>

\* C30: the text-only branch is never entered with an empty or
\* whitespace-only message: a turn whose text is still empty after its .txt
\* attachments were absorbed, no other attachment remaining, is rejected
\* like empty input, with no classification or generation call, no session
\* change and no record.
C30_EmptyCombinedTextRejected ==
  EmptyAfterAbsorb =>
    /\ turn.pc = "done"
    /\ turn.yields = <<EMPTY_INPUT_MSG>>
    /\ turn.branch # "text"
    /\ turn.classifyCalls = 0
    /\ turn.genCalls = 0
    /\ SessionUnchanged
    /\ NothingPersisted

====
